---- MODULE Spec2Model ----
(***************************************************************************)
(* Model of session_count.py: the user directory loader (get_user_dict),   *)
(* the event stream builder (get_event_list) and the occupancy sweep       *)
(* (write_session_count_csv_file), run in sequence by main.                *)
(*                                                                         *)
(* Strings are sequences of character codes, compared as Python compares   *)
(* str values (lexicographically by code point).  A timestamp is a tick    *)
(* count; tick 0 lies in the year before MinValidYear and every later tick *)
(* in a later year.  A timestamp text is the sequence of its '+'-separated *)
(* parts.  Every event carries the index `rec` of the row it was appended  *)
(* for: it stands for the identity of the tuple object and is never read   *)
(* by the program (the sort key and the sweep ignore it).                  *)
(***************************************************************************)
EXTENDS Integers, Sequences, FiniteSets, TLC

VARIABLES pc, fault, user_info_list, user_dict, rows, event_list, idx,
          session_count, max_session_count, current_users, out_file, summary

vars == <<pc, fault, user_info_list, user_dict, rows, event_list, idx,
          session_count, max_session_count, current_users, out_file, summary>>

(* ---------------------------------------------------------------- bounds *)
MaxRows == 2
MaxTime == 3
MaxUsers == 2
MaxRowsDir == 1

(* ------------------------------------------------------- program constants *)
MinValidYear == 2022

(* ------------------------------------------------------------ input sets *)
Times == 0..MaxTime
Malformed == [iso |-> FALSE, tick |-> 0]
IsoTexts == {[iso |-> TRUE, tick |-> t] : t \in Times}
Offsets == {"10:00"}
TimestampTexts ==
    {<<b>> : b \in IsoTexts \cup {Malformed}} \cup
    {<<b, o>> : b \in IsoTexts \cup {Malformed}, o \in Offsets}

str_a == <<97>>
str_b == <<98>>
str_a_dash == <<97, 45>>
UserIds == {str_a, str_b}
UserInfos == {[id |-> str_b, username |-> str_a],
              [id |-> str_b, username |-> str_a_dash]}
UserInfoLists ==
    UNION {[1..n -> UserInfos] : n \in 0..MaxUsers}

EmptyDict == [k \in {} |-> 0]

(* ------------------------------------------------------- pure operators *)
Year(t) == (MinValidYear - 1) + t

RECURSIVE StrLess(_, _)
StrLess(a, b) ==
    IF b = <<>> THEN FALSE
    ELSE IF a = <<>> THEN TRUE
    ELSE IF Head(a) # Head(b) THEN Head(a) < Head(b)
    ELSE StrLess(Tail(a), Tail(b))

\* s.split('+')[0]
StripOffset(text) == text[1]

\* datetime.fromisoformat: TRUE iff the text parses
Parses(text) == StripOffset(text).iso

\* datetime.fromisoformat of a text that parses
ParseTimestamp(text) == StripOffset(text).tick

\* variant: the first entry of an id is kept, later ones are ignored
RECURSIVE DictOf_first_wins(_)
DictOf_first_wins(info_list) ==
    IF info_list = <<>> THEN EmptyDict
    ELSE LET n == Len(info_list)
             d == DictOf_first_wins(SubSeq(info_list, 1, n - 1))
             e == info_list[n]
         IN [k \in DOMAIN d \cup {e.id} |->
                IF k \in DOMAIN d THEN d[k] ELSE e.username]

\* {user_info['id']: user_info['username'] for user_info in user_info_list}
RECURSIVE DictOf(_)
DictOf(info_list) ==
    IF info_list = <<>> THEN EmptyDict
    ELSE LET n == Len(info_list)
             d == DictOf(SubSeq(info_list, 1, n - 1))
             e == info_list[n]
         IN [k \in DOMAIN d \cup {e.id} |->
                IF k = e.id THEN e.username ELSE d[k]]

\* user_dict.get(user_id, user_id)
LookupName(d, user_id) == IF user_id \in DOMAIN d THEN d[user_id] ELSE user_id

\* variant: a record that ends before it starts is skipped as well
SkipsRow_reversed(row_dict) ==
    \/ Year(row_dict.start_timestamp) < MinValidYear
    \/ Year(row_dict.end_timestamp) < MinValidYear
    \/ row_dict.end_timestamp < row_dict.start_timestamp

\* variant: `and` in place of `or`
SkipsRow_both(row_dict) ==
    /\ Year(row_dict.start_timestamp) < MinValidYear
    /\ Year(row_dict.end_timestamp) < MinValidYear

\* the year filter of line 42: TRUE iff the row is skipped
SkipsRow(row_dict) ==
    \/ Year(row_dict.start_timestamp) < MinValidYear
    \/ Year(row_dict.end_timestamp) < MinValidYear

StartEvent(row_dict, name, r) ==
    [timestamp |-> row_dict.start_timestamp, delta |-> 1, name |-> name, rec |-> r]

EndEvent(row_dict, name, r) ==
    [timestamp |-> row_dict.end_timestamp, delta |-> -1, name |-> name, rec |-> r]

\* variant: sorted(event_list, key=lambda event: event[0])
EventLess_timestamp_only(e1, e2) == e1.timestamp < e2.timestamp

\* tuple comparison of (timestamp, delta, name)
EventLess(e1, e2) ==
    IF e1.timestamp # e2.timestamp THEN e1.timestamp < e2.timestamp
    ELSE IF e1.delta # e2.delta THEN e1.delta < e2.delta
    ELSE StrLess(e1.name, e2.name)

\* insert e behind every element that is not greater than e
RECURSIVE InsertEvent(_, _)
InsertEvent(e, s) ==
    IF s = <<>> THEN <<e>>
    ELSE IF EventLess(e, Head(s)) THEN <<e>> \o s
    ELSE <<Head(s)>> \o InsertEvent(e, Tail(s))

\* sorted(event_list): stable, ascending
RECURSIVE Sorted(_)
Sorted(s) ==
    IF s = <<>> THEN <<>>
    ELSE InsertEvent(s[Len(s)], Sorted(SubSeq(s, 1, Len(s) - 1)))

(* ------------------------------------------------------------------ Init *)
NoSummary == [printed |-> FALSE, peak |-> 0, first |-> 0, last |-> 0]

Init ==
    /\ pc = "main"
    /\ fault = "none"
    /\ user_info_list = <<>>
    /\ user_dict = EmptyDict
    /\ rows = <<>>
    /\ event_list = <<>>
    /\ idx = 0
    /\ session_count = 0
    /\ max_session_count = 0
    /\ current_users = EmptyDict
    /\ out_file = [exists |-> FALSE, header |-> FALSE, rows |-> <<>>]
    /\ summary = NoSummary

Abort(f) ==
    /\ pc' = "aborted"
    /\ fault' = f

(* ---------------------------------------------------------------- main *)
\* variant: main opens the output and writes the header before it loads anything
MainPaths_opens_output ==
    /\ pc = "main"
    /\ \/ /\ pc' = "get_user_dict"
          /\ out_file' = [exists |-> TRUE, header |-> TRUE, rows |-> <<>>]
          /\ UNCHANGED fault
       \/ /\ Abort("InputNotFound")
          /\ UNCHANGED out_file
    /\ UNCHANGED <<user_info_list, user_dict, rows, event_list, idx, session_count,
                   max_session_count, current_users, summary>>

\* lines 87-100: the paths are resolved; max(glob(...)) of no match raises
MainPaths ==
    /\ pc = "main"
    /\ \/ /\ pc' = "get_user_dict"
          /\ UNCHANGED fault
       \/ Abort("InputNotFound")
    /\ UNCHANGED <<user_info_list, user_dict, rows, event_list, idx, session_count,
                   max_session_count, current_users, out_file, summary>>

\* get_user_dict: open (may raise), json.load, dict comprehension.  The list
\* is a local of get_user_dict and is gone when it returns; with `keep` it is
\* kept on record for the statements about the directory.
LoadUsers(keep) ==
    /\ pc = "get_user_dict"
    /\ \/ /\ \E loaded \in UserInfoLists :
                /\ user_dict' = DictOf(loaded)
                /\ user_info_list' = IF keep THEN loaded ELSE <<>>
          /\ pc' = "get_event_list"
          /\ UNCHANGED fault
       \/ /\ Abort("InputNotFound")
          /\ UNCHANGED <<user_info_list, user_dict>>
    /\ UNCHANGED <<rows, event_list, idx, session_count,
                   max_session_count, current_users, out_file, summary>>

GetUserDict == LoadUsers(FALSE)

GetUserDictListed == LoadUsers(TRUE)

\* get_event_list, lines 30-32: open the session file (may raise)
OpenSessions ==
    /\ pc = "get_event_list"
    /\ \/ /\ pc' = "read_rows"
          /\ UNCHANGED fault
       \/ Abort("InputNotFound")
    /\ UNCHANGED <<user_info_list, user_dict, rows, event_list, idx, session_count,
                   max_session_count, current_users, out_file, summary>>

\* one iteration of the loop of lines 34-49, of a file of at most `limit` rows
ReadRowUpTo(limit) ==
    /\ pc = "read_rows"
    /\ Len(rows) < limit
    /\ \E start_text \in TimestampTexts, end_text \in TimestampTexts,
          user_id \in UserIds :
          IF ~Parses(start_text) \/ ~Parses(end_text)
          THEN /\ Abort("ParseError")
               /\ UNCHANGED <<rows, event_list>>
          ELSE LET row_dict == [start_timestamp |-> ParseTimestamp(start_text),
                                end_timestamp |-> ParseTimestamp(end_text),
                                user_id |-> user_id]
                   user_name == LookupName(user_dict, user_id)
                   r == Len(rows) + 1
               IN /\ rows' = Append(rows, row_dict)
                  /\ event_list' =
                        IF SkipsRow(row_dict) THEN event_list
                        ELSE event_list \o <<StartEvent(row_dict, user_name, r),
                                             EndEvent(row_dict, user_name, r)>>
                  /\ UNCHANGED <<pc, fault>>
    /\ UNCHANGED <<user_info_list, user_dict, idx, session_count,
                   max_session_count, current_users, out_file, summary>>

ReadRow == ReadRowUpTo(MaxRows)

ReadRowDir == ReadRowUpTo(MaxRowsDir)

\* line 53: the file is exhausted, the sorted list is returned to main
ReturnSorted ==
    /\ pc = "read_rows"
    /\ event_list' = Sorted(event_list)
    /\ pc' = "write_session_count_csv_file"
    /\ UNCHANGED <<fault, user_info_list, user_dict, rows, idx, session_count,
                   max_session_count, current_users, out_file, summary>>

(* ------------------------------------------ write_session_count_csv_file *)
\* str(value) of a non-negative int
RECURSIVE IntStr(_)
IntStr(n) ==
    IF n < 10 THEN <<48 + n>>
    ELSE IntStr(n \div 10) \o <<48 + (n % 10)>>

\* f'{key}={value}'
Token(key, value) == key \o <<61>> \o IntStr(value)

\* sorted(...) of a collection of distinct strings
RECURSIVE SortedStrs(_)
SortedStrs(S) ==
    IF S = {} THEN <<>>
    ELSE LET m == CHOOSE x \in S : \A y \in S \ {x} : StrLess(x, y)
         IN <<m>> \o SortedStrs(S \ {m})

\* ' '.join(...)
RECURSIVE JoinSpace(_)
JoinSpace(strs) ==
    IF strs = <<>> THEN <<>>
    ELSE IF Len(strs) = 1 THEN strs[1]
    ELSE strs[1] \o <<32>> \o JoinSpace(Tail(strs))

\* line 73
UserString(cu) ==
    JoinSpace(SortedStrs({Token(key, cu[key]) : key \in DOMAIN cu}))

\* line 69 raises KeyError: an end event of a name that is no key
RaisesKeyError(cu, event) ==
    event.delta = -1 /\ event.name \notin DOMAIN cu

\* variant: a name is marked present instead of counted
UpdateUsers_presence(cu, event) ==
    IF event.delta = 1
    THEN [k \in DOMAIN cu \cup {event.name} |->
            IF k = event.name THEN 1 ELSE cu[k]]
    ELSE [k \in DOMAIN cu \ {event.name} |-> cu[k]]

\* variant: a count that reaches 0 stays in the dict
UpdateUsers_keeps_zero(cu, event) ==
    IF event.delta = 1
    THEN [k \in DOMAIN cu \cup {event.name} |->
            IF k = event.name
            THEN (IF k \in DOMAIN cu THEN cu[k] ELSE 0) + 1
            ELSE cu[k]]
    ELSE [cu EXCEPT ![event.name] = cu[event.name] - 1]

\* lines 66-71 when nothing is raised
UpdateUsers(cu, event) ==
    IF event.delta = 1
    THEN [k \in DOMAIN cu \cup {event.name} |->
            IF k = event.name
            THEN (IF k \in DOMAIN cu THEN cu[k] ELSE 0) + 1
            ELSE cu[k]]
    ELSE IF cu[event.name] - 1 = 0
         THEN [k \in DOMAIN cu \ {event.name} |-> cu[k]]
         ELSE [cu EXCEPT ![event.name] = cu[event.name] - 1]

\* variant: current_users.get(name, 0), an end event of an absent name is let through
SweepResult_clamped(cu, event) ==
    IF RaisesKeyError(cu, event)
    THEN [raised |-> FALSE, users |-> cu]
    ELSE [raised |-> FALSE, users |-> UpdateUsers(cu, event)]

\* lines 66-71: whether a KeyError is raised, and the dict afterwards
SweepResult(cu, event) ==
    IF RaisesKeyError(cu, event)
    THEN [raised |-> TRUE, users |-> cu]
    ELSE [raised |-> FALSE, users |-> UpdateUsers(cu, event)]

\* variant: every event counts as one more session
NextCount_plus(count, event) == count + 1

\* line 64
NextCount(count, event) == count + event.delta

\* variant: one line per distinct timestamp, the latest replacing the earlier
WriteRow_per_timestamp(written, row) ==
    IF written # <<>> /\ written[Len(written)].datetime = row.datetime
    THEN [written EXCEPT ![Len(written)] = row]
    ELSE Append(written, row)

\* line 76: one more line in the output
WriteRow(written, row) == Append(written, row)

\* variant: the latest total replaces the peak
Max_latest(a, b) == b

\* line 78
Max(a, b) == IF a >= b THEN a ELSE b

\* lines 57-61: the locals are set, the output is opened (truncated) and the
\* header is written.  The frame of get_event_list, and with it the rows it
\* read, is gone.
OpenOutput ==
    /\ pc = "write_session_count_csv_file"
    /\ session_count' = 0
    /\ max_session_count' = 0
    /\ current_users' = EmptyDict
    /\ idx' = 0
    /\ rows' = <<>>
    /\ out_file' = [exists |-> TRUE, header |-> TRUE, rows |-> <<>>]
    /\ pc' = "sweep"
    /\ UNCHANGED <<fault, user_info_list, user_dict, event_list, summary>>

\* one iteration of the loop of lines 62-78.  A KeyError leaves the with
\* block, which closes the file with what was written so far.
SweepEvent ==
    /\ pc = "sweep"
    /\ idx < Len(event_list)
    /\ LET event == event_list[idx + 1]
           timestamp == event.timestamp
           count == NextCount(session_count, event)
           res == SweepResult(current_users, event)
       IN /\ session_count' = count
          /\ IF res.raised
             THEN /\ Abort("KeyError")
                  /\ UNCHANGED <<idx, current_users, out_file, max_session_count>>
             ELSE LET cu == res.users
                      current_user_string == UserString(cu)
                  IN /\ current_users' = cu
                     /\ out_file' = [out_file EXCEPT !.rows =
                            WriteRow(@, [datetime |-> timestamp,
                                         sessions |-> count,
                                         users |-> current_user_string])]
                     /\ max_session_count' = Max(max_session_count, count)
                     /\ idx' = idx + 1
                     /\ UNCHANGED <<pc, fault>>
    /\ UNCHANGED <<user_info_list, user_dict, rows, event_list, summary>>

\* the loop is exhausted: the with block closes the file
SweepEnd ==
    /\ pc = "sweep"
    /\ idx = Len(event_list)
    /\ pc' = "summary"
    /\ UNCHANGED <<fault, user_info_list, user_dict, rows, event_list, idx, session_count,
                   max_session_count, current_users, out_file, summary>>

\* lines 80-83: event_list[0] of an empty list raises IndexError
PrintSummary ==
    /\ pc = "summary"
    /\ IF event_list = <<>>
       THEN /\ Abort("IndexError")
            /\ UNCHANGED summary
       ELSE /\ summary' = [printed |-> TRUE,
                           peak |-> max_session_count,
                           first |-> event_list[1].timestamp,
                           last |-> event_list[Len(event_list)].timestamp]
            /\ pc' = "done"
            /\ UNCHANGED fault
    /\ UNCHANGED <<user_info_list, user_dict, rows, event_list, idx, session_count,
                   max_session_count, current_users, out_file>>

Next ==
    \/ MainPaths
    \/ GetUserDict
    \/ OpenSessions
    \/ ReadRow
    \/ ReturnSorted
    \/ OpenOutput
    \/ SweepEvent
    \/ SweepEnd
    \/ PrintSummary

Spec == Init /\ [][Next]_vars

\* the loader and the builder alone, the loaded directory kept on record
NextDir ==
    \/ MainPaths
    \/ GetUserDictListed
    \/ OpenSessions
    \/ ReadRowDir
    \/ ReturnSorted

SpecDir == Init /\ [][NextDir]_vars

(* ============================================================== claims *)
Positions == DOMAIN event_list
Recs == {event_list[i].rec : i \in Positions}
EventNames == {event_list[i].name : i \in Positions}

\* the position of the start (d = 1) or end (d = -1) event of record r
PosOf(r, d) ==
    CHOOSE i \in Positions : event_list[i].rec = r /\ event_list[i].delta = d

NameOf(r) == event_list[PosOf(r, 1)].name

\* the events of name n with delta d among the first k events
CountIn(k, n, d) ==
    Cardinality({i \in 1..k : event_list[i].name = n /\ event_list[i].delta = d})

RECURSIVE SumDeltas(_)
SumDeltas(k) == IF k = 0 THEN 0 ELSE SumDeltas(k - 1) + event_list[k].delta

\* the sweep has begun; idx events have been processed
Swept ==
    \/ pc \in {"sweep", "summary", "done"}
    \/ pc = "aborted" /\ fault \in {"KeyError", "IndexError"}

\* get_event_list has returned
Built == pc = "write_session_count_csv_file" \/ Swept

\* sessions of name n whose start event is processed and whose end event is not
OpenSessions_of(n) ==
    {r \in Recs : /\ NameOf(r) = n
                  /\ PosOf(r, 1) <= idx
                  /\ PosOf(r, -1) > idx}

\* sessions of name n whose end event is processed and whose start event is not
InvertedSessions_of(n) ==
    {r \in Recs : /\ NameOf(r) = n
                  /\ PosOf(r, -1) <= idx
                  /\ PosOf(r, 1) > idx}

UsersCount(n) == IF n \in DOMAIN current_users THEN current_users[n] ELSE 0

\* C1 as stated: after every processed prefix, active_users[name] is the number
\* of that name's sessions whose start event is in the prefix and whose end
\* event is not; the name is absent exactly when that number is 0.
C1_OpenSessionCount ==
    Swept =>
        /\ DOMAIN current_users \subseteq EventNames
        /\ \A n \in EventNames :
              /\ UsersCount(n) = Cardinality(OpenSessions_of(n))
              /\ (n \in DOMAIN current_users) <=> (OpenSessions_of(n) # {})

\* What the sweep maintains instead: the count of a name is the number of its
\* start events among the processed ones minus the number of its end events
\* (absent exactly when that is 0), that is, its open sessions less its
\* sessions whose end event is processed while their start event is not.
UsersAreStartsMinusEnds ==
    Swept =>
        /\ DOMAIN current_users \subseteq EventNames
        /\ \A n \in EventNames :
              /\ UsersCount(n) = CountIn(idx, n, 1) - CountIn(idx, n, -1)
              /\ (n \in DOMAIN current_users) <=>
                    (CountIn(idx, n, 1) - CountIn(idx, n, -1) # 0)
              /\ UsersCount(n) = Cardinality(OpenSessions_of(n))
                                   - Cardinality(InvertedSessions_of(n))

\* C2: an end event of a name that is no key of active_users aborts the run at
\* that event: nothing is clamped or skipped, no row is written for it, and
\* no row is written after the abort.
C2_UnderflowFatal ==
    [][/\ (/\ pc = "sweep"
           /\ idx < Len(event_list)
           /\ event_list[idx + 1].delta = -1
           /\ event_list[idx + 1].name \notin DOMAIN current_users)
          => /\ pc' = "aborted"
             /\ fault' = "KeyError"
             /\ out_file' = out_file
             /\ current_users' = current_users
             /\ idx' = idx
       /\ pc = "aborted" => out_file' = out_file /\ pc' = "aborted"]_vars

\* the run has aborted at an end event of an absent name, after some rows
C2_Witness ==
    /\ pc = "aborted"
    /\ fault = "KeyError"
    /\ idx >= 1
    /\ idx < Len(event_list)
    /\ event_list[idx + 1].delta = -1
    /\ event_list[idx + 1].name \notin DOMAIN current_users
    /\ Len(out_file.rows) = idx

\* C3: after k processed events exactly k rows are written, row i carrying the
\* timestamp of event i and the running total after events 1..i; when the
\* sweep finishes there are as many rows as events.
C3_OneRowPerEvent ==
    Swept =>
        /\ Len(out_file.rows) = idx
        /\ \A i \in 1..idx :
              /\ i <= Len(out_file.rows)
              /\ out_file.rows[i].datetime = event_list[i].timestamp
              /\ out_file.rows[i].sessions = SumDeltas(i)
        /\ (pc \in {"summary", "done"} \/ fault = "IndexError")
              => Len(out_file.rows) = Len(event_list)

\* a finished sweep of four events, two of them at one timestamp
C3_Witness ==
    /\ pc = "done"
    /\ Len(event_list) = 4
    /\ Len(out_file.rows) = 4
    /\ \E i \in 1..3 : event_list[i].timestamp = event_list[i + 1].timestamp

StrLeq(a, b) == a = b \/ StrLess(a, b)

\* C4: the returned EventStream is ascending by (timestamp, delta, name):
\* timestamps never decrease, at equal timestamps ends precede starts, and at
\* equal timestamp and delta the names ascend.
C4_SortedByCompoundKey ==
    Built =>
        \A i \in Positions : \A j \in Positions :
            i < j =>
                /\ event_list[i].timestamp <= event_list[j].timestamp
                /\ event_list[i].timestamp = event_list[j].timestamp
                      => event_list[i].delta <= event_list[j].delta
                /\ (/\ event_list[i].timestamp = event_list[j].timestamp
                    /\ event_list[i].delta = event_list[j].delta)
                      => StrLeq(event_list[i].name, event_list[j].name)

\* a returned stream whose rows were read in another order: an end and a
\* start tie on the timestamp, and two names tie on timestamp and delta
C4_Witness ==
    /\ pc = "write_session_count_csv_file"
    /\ Len(event_list) = 4
    /\ event_list[1].rec = 2
    /\ \E i \in 1..3 :
          /\ event_list[i].timestamp = event_list[i + 1].timestamp
          /\ event_list[i].delta = -1
          /\ event_list[i + 1].delta = 1
    /\ \E i \in 1..3 :
          /\ event_list[i].timestamp = event_list[i + 1].timestamp
          /\ event_list[i].delta = event_list[i + 1].delta
          /\ event_list[i].name # event_list[i + 1].name

\* a record is valid iff both years are >= MinValidYear
ValidRecord(row_dict) ==
    /\ Year(row_dict.start_timestamp) >= MinValidYear
    /\ Year(row_dict.end_timestamp) >= MinValidYear

ValidRows == {r \in DOMAIN rows : ValidRecord(rows[r])}

\* C5: the EventStream holds exactly two events per valid record, its
\* (start_timestamp, +1, name) and its (end_timestamp, -1, name), and none of
\* any other record, so it has twice as many events as there are valid records.
C5_TwoEventsPerValidRecord ==
    pc \in {"read_rows", "write_session_count_csv_file"} =>
        /\ Len(event_list) = 2 * Cardinality(ValidRows)
        /\ Recs = ValidRows
        /\ \A r \in ValidRows :
              /\ Cardinality({i \in Positions : event_list[i].rec = r}) = 2
              /\ \E i \in Positions :
                    /\ event_list[i].rec = r
                    /\ event_list[i].delta = 1
                    /\ event_list[i].timestamp = rows[r].start_timestamp
                    /\ event_list[i].name = LookupName(user_dict, rows[r].user_id)
              /\ \E i \in Positions :
                    /\ event_list[i].rec = r
                    /\ event_list[i].delta = -1
                    /\ event_list[i].timestamp = rows[r].end_timestamp
                    /\ event_list[i].name = LookupName(user_dict, rows[r].user_id)

\* a returned stream of one valid record, the other record having only its
\* end year before MinValidYear
C5_Witness ==
    /\ pc = "write_session_count_csv_file"
    /\ Len(rows) = 2
    /\ Len(event_list) = 2
    /\ \E r \in DOMAIN rows :
          /\ Year(rows[r].start_timestamp) >= MinValidYear
          /\ Year(rows[r].end_timestamp) < MinValidYear

\* C6: after every processed prefix the running total is the sum of the
\* deltas of the prefix; a record with both events processed contributes net
\* zero; after the whole EventStream the total is 0 and active_users is empty.
C6_Conservation ==
    (pc \in {"sweep", "summary", "done"} \/ fault = "IndexError") =>
        /\ session_count = SumDeltas(idx)
        /\ session_count =
              Cardinality({r \in Recs : PosOf(r, 1) <= idx /\ PosOf(r, -1) > idx})
              - Cardinality({r \in Recs : PosOf(r, -1) <= idx /\ PosOf(r, 1) > idx})
        /\ (pc # "sweep" \/ idx = Len(event_list))
              => session_count = 0 /\ current_users = EmptyDict

\* a finished sweep of two overlapping sessions
C6_Witness ==
    /\ pc = "done"
    /\ Len(event_list) = 4
    /\ idx = 4
    /\ \E i \in 1..4 : out_file.rows[i].sessions = 2
    /\ session_count = 0

\* C7: an empty EventStream is not fatal: the run writes no rows and ends
\* normally, the summary step not faulting.
C7_EmptyStreamNotFatal ==
    (Built /\ event_list = <<>>) =>
        /\ pc # "aborted"
        /\ out_file.rows = <<>>

\* C8: no output file is left in place by a run that ends in a fatal error; a
\* file that exists when the run has ended holds all the rows.
C8_NoPartialOutput ==
    /\ pc = "aborted" => ~out_file.exists
    /\ (out_file.exists /\ pc \in {"aborted", "done"})
          => /\ pc = "done"
             /\ out_file.header
             /\ Len(out_file.rows) = Len(event_list)

\* C9: the output is opened and written only after the user directory is
\* loaded and the whole EventStream is built and sorted; a missing input or
\* an unparsable timestamp in any row aborts with nothing written, not even
\* the header.
C9_OutputAfterInput ==
    /\ (out_file.exists \/ out_file.header \/ out_file.rows # <<>>)
          => /\ Swept
             /\ \A i \in Positions : \A j \in Positions :
                   i < j => ~EventLess(event_list[j], event_list[i])
    /\ fault \in {"InputNotFound", "ParseError"}
          => /\ pc = "aborted"
             /\ ~out_file.exists
             /\ ~out_file.header
             /\ out_file.rows = <<>>

\* the second row read has a timestamp that does not parse, after a valid first row
C9_Witness ==
    /\ pc = "aborted"
    /\ fault = "ParseError"
    /\ Len(rows) = 1
    /\ Len(event_list) = 2
    /\ ~out_file.exists

\* the records of the stream that end before they start
ReversedRecs ==
    {r \in Recs :
        event_list[PosOf(r, -1)].timestamp < event_list[PosOf(r, 1)].timestamp}

\* C10 as stated: a valid-year record that ends before it starts has both events
\* in the EventStream and the sweep gives each of them a row, without aborting.
C10_ReversedRecordSwept ==
    (Swept /\ pc \in {"aborted", "summary", "done"}) =>
        \A r \in ReversedRecs :
            /\ fault # "KeyError"
            /\ PosOf(r, 1) <= Len(out_file.rows)
            /\ PosOf(r, -1) <= Len(out_file.rows)

\* C10 amended: a valid-year record that ends before it starts is not rejected
\* by get_event_list: both its events are in the EventStream, the end event
\* ahead of the start event.  The sweep gives a row to each of them it
\* processes and aborts on them only by the accounting underflow, at the end
\* event when the name has no open session; a record that is the only one of
\* its name always aborts the run there, before either event gets a row.
C10_ReversedNotRejected ==
    /\ pc \in {"read_rows", "write_session_count_csv_file"} =>
          \A r \in DOMAIN rows :
              (ValidRecord(rows[r]) /\ rows[r].end_timestamp < rows[r].start_timestamp)
                 => /\ \E i \in Positions :
                          /\ event_list[i].rec = r
                          /\ event_list[i].delta = 1
                          /\ event_list[i].timestamp = rows[r].start_timestamp
                    /\ \E i \in Positions :
                          /\ event_list[i].rec = r
                          /\ event_list[i].delta = -1
                          /\ event_list[i].timestamp = rows[r].end_timestamp
    /\ Built =>
          \A r \in ReversedRecs :
              /\ PosOf(r, -1) < PosOf(r, 1)
              /\ Swept =>
                    /\ \A d \in {1, -1} :
                          PosOf(r, d) <= idx
                             => /\ PosOf(r, d) <= Len(out_file.rows)
                                /\ out_file.rows[PosOf(r, d)].datetime
                                      = event_list[PosOf(r, d)].timestamp
                    /\ (pc = "aborted" /\ fault = "KeyError")
                          => /\ idx + 1 # PosOf(r, 1)
                             /\ idx + 1 = PosOf(r, -1)
                                   => NameOf(r) \notin DOMAIN current_users
                    /\ (\A q \in Recs \ {r} : NameOf(q) # NameOf(r))
                          => /\ idx < PosOf(r, -1)
                             /\ pc \notin {"summary", "done"}

\* the run has aborted at the end event of a record that ends before it
\* starts, after a row was written for another name
C10_Witness ==
    /\ pc = "aborted"
    /\ fault = "KeyError"
    /\ idx = 1
    /\ Len(out_file.rows) = 1
    /\ \E r \in ReversedRecs : PosOf(r, -1) = idx + 1

\* C11 as stated: when the stream has a point at which more end events than
\* start events are processed, the sweep emits a row whose sessions value is
\* negative.
C11_NegativeRowEmitted ==
    (/\ Swept
     /\ pc \in {"aborted", "summary", "done"}
     /\ \E k \in Positions : SumDeltas(k) < 0)
        => \E i \in DOMAIN out_file.rows : out_file.rows[i].sessions < 0

\* C11 amended: the running total is not clamped and no check of its own keeps
\* it >= 0, but no emitted row has a negative sessions value: the end event
\* that takes the total below 0 has no open session of its name, and the
\* sweep aborts on it (KeyError) with the total at -1 and no row written.
C11_NoNegativeRow ==
    /\ \A i \in DOMAIN out_file.rows : out_file.rows[i].sessions >= 0
    /\ session_count < 0
          => /\ pc = "aborted"
             /\ fault = "KeyError"
             /\ session_count = -1
             /\ Len(out_file.rows) = idx
             /\ SumDeltas(idx + 1) = -1

\* the total has gone to -1 at the third event of a stream, and the run has
\* aborted there after two rows
C11_Witness ==
    /\ pc = "aborted"
    /\ fault = "KeyError"
    /\ session_count = -1
    /\ idx = 2
    /\ Len(out_file.rows) = 2
    /\ SumDeltas(3) < 0

\* the name=count tokens of a dict in ascending order of the names
TokensByName(cu) ==
    LET names == SortedStrs(DOMAIN cu)
    IN [i \in DOMAIN names |-> Token(names[i], cu[names[i]])]

\* C12: the users field of a row lists exactly the keys of active_users as
\* name=count tokens separated by single spaces, ascending by name (also when
\* a name is a prefix of another or has characters below '='), and is empty
\* when no user is active.  Stated of the latest row, whose snapshot is the
\* current dict.
C12_UsersSortedByName ==
    (Swept /\ idx >= 1) =>
        /\ idx <= Len(out_file.rows)
        /\ out_file.rows[idx].users = JoinSpace(TokensByName(current_users))

\* What the code writes instead: the tokens in ascending order of the whole
\* name=count strings.
UsersSortedByToken ==
    (Swept /\ idx >= 1) =>
        /\ idx <= Len(out_file.rows)
        /\ out_file.rows[idx].users =
              JoinSpace(SortedStrs({Token(n, current_users[n]) : n \in DOMAIN current_users}))
        /\ current_users = EmptyDict => out_file.rows[idx].users = <<>>

\* the directory entries of an id, by position
EntriesOf(user_id) ==
    {i \in DOMAIN user_info_list : user_info_list[i].id = user_id}

\* the username of the last entry of the id, or the id when it has no entry
ResolvedName(user_id) ==
    IF EntriesOf(user_id) = {} THEN user_id
    ELSE LET last == CHOOSE i \in EntriesOf(user_id) :
                        \A j \in EntriesOf(user_id) : j <= i
         IN user_info_list[last].username

\* C13: both events of a record carry the username of the last directory entry
\* of the record's user_id, or the user_id itself when the directory has no
\* entry of it; a miss neither aborts the run nor drops the record.
C13_DisplayNameResolution ==
    /\ pc \in {"read_rows", "write_session_count_csv_file"} =>
          \A r \in ValidRows :
              /\ \E i \in Positions :
                    event_list[i].rec = r /\ event_list[i].delta = 1
              /\ \E i \in Positions :
                    event_list[i].rec = r /\ event_list[i].delta = -1
              /\ \A i \in Positions :
                    event_list[i].rec = r
                       => event_list[i].name = ResolvedName(rows[r].user_id)
    /\ pc = "aborted" => fault \in {"InputNotFound", "ParseError"}
    /\ fault = "ParseError" => pc = "aborted"

\* the directory has two entries of one id with different usernames, and the
\* events of a record of that id carry the later one
C13_Witness ==
    /\ pc = "write_session_count_csv_file"
    /\ Len(user_info_list) = 2
    /\ user_info_list[1].id = user_info_list[2].id
    /\ user_info_list[1].username # user_info_list[2].username
    /\ Len(event_list) = 2
    /\ rows[1].user_id = user_info_list[2].id
    /\ event_list[1].name = user_info_list[2].username
    /\ event_list[2].name = user_info_list[2].username

RECURSIVE MaxSessions(_)
MaxSessions(k) ==
    IF k = 0 THEN 0
    ELSE LET m == MaxSessions(k - 1)
             v == out_file.rows[k].sessions
         IN IF v > m THEN v ELSE m

\* C14: after a completed sweep of a non-empty EventStream the reported peak is
\* the greatest running total of the emitted rows, never less than the
\* initial 0, and the reported time span is from the timestamp of the first
\* event to that of the last, the least and the greatest of the stream.
C14_SummaryCorrect ==
    /\ pc = "done" =>
          /\ event_list # <<>>
          /\ summary.printed
          /\ summary.peak = MaxSessions(Len(out_file.rows))
          /\ summary.peak >= 0
          /\ \A i \in DOMAIN out_file.rows : out_file.rows[i].sessions <= summary.peak
          /\ summary.first = event_list[1].timestamp
          /\ summary.last = event_list[Len(event_list)].timestamp
          /\ \A i \in Positions :
                /\ summary.first <= event_list[i].timestamp
                /\ event_list[i].timestamp <= summary.last
    /\ summary.printed => pc = "done"

\* a completed sweep whose peak of 2 is not its last total, over a span of
\* more than one tick
C14_Witness ==
    /\ pc = "done"
    /\ summary.peak = 2
    /\ session_count = 0
    /\ summary.first < summary.last

\* every record of the stream ends no earlier than it starts
WellOrdered ==
    \A r \in Recs :
        event_list[PosOf(r, 1)].timestamp <= event_list[PosOf(r, -1)].timestamp

\* C15: on a stream built from valid records whose end_timestamp is not earlier
\* than their start_timestamp (equal timestamps included) the sweep never
\* reaches an end event of an absent name: no accounting-underflow abort.
C15_NoUnderflowWellOrdered ==
    (Swept /\ WellOrdered) =>
        /\ fault # "KeyError"
        /\ (pc = "sweep" /\ idx < Len(event_list) /\ event_list[idx + 1].delta = -1)
              => event_list[idx + 1].name \in DOMAIN current_users

\* every record of the stream ends later than it starts
StrictlyOrdered ==
    \A r \in Recs :
        event_list[PosOf(r, 1)].timestamp < event_list[PosOf(r, -1)].timestamp

\* What holds instead: no underflow when every record ends later than it starts.
NoUnderflowStrictlyOrdered ==
    (Swept /\ StrictlyOrdered) =>
        /\ fault # "KeyError"
        /\ (pc = "sweep" /\ idx < Len(event_list) /\ event_list[idx + 1].delta = -1)
              => event_list[idx + 1].name \in DOMAIN current_users

RECURSIVE SumCounts(_, _)
SumCounts(cu, S) ==
    IF S = {} THEN 0
    ELSE LET n == CHOOSE x \in S : TRUE
         IN cu[n] + SumCounts(cu, S \ {n})

\* C16: the sessions value of every emitted row is the sum of the counts of
\* the names of that row's active_users snapshot.  Stated of the latest row,
\* whose snapshot is the current dict; every row is the latest when written.
C16_SessionsIsSumOfCounts ==
    (Swept /\ idx >= 1) =>
        /\ idx = Len(out_file.rows)
        /\ out_file.rows[idx].sessions = SumCounts(current_users, DOMAIN current_users)
        /\ pc # "aborted"
              => session_count = SumCounts(current_users, DOMAIN current_users)

\* a row written with two names active, one open session each
C16_Witness ==
    /\ pc = "sweep"
    /\ idx >= 1
    /\ idx = Len(out_file.rows)
    /\ out_file.rows[idx].sessions = 2
    /\ Cardinality(DOMAIN current_users) = 2

\* the character after every '=' of a string is a digit from 1 to 9
NoZeroToken(str) ==
    \A i \in DOMAIN str :
        str[i] = 61 => (i < Len(str) /\ str[i + 1] \in 49..57)

\* C17: after every processed event every key of active_users has a count
\* >= 1, a count that reaches 0 removing its key in the same step, so no row
\* has a name=0 or negative-count token.
C17_CountsAtLeastOne ==
    Swept =>
        /\ \A n \in DOMAIN current_users : current_users[n] >= 1
        /\ \A i \in DOMAIN out_file.rows : NoZeroToken(out_file.rows[i].users)
        /\ (idx >= 1 /\ event_list[idx].delta = -1)
              => (event_list[idx].name \in DOMAIN current_users
                    <=> CountIn(idx, event_list[idx].name, 1)
                          > CountIn(idx, event_list[idx].name, -1))

\* an end event has just removed its name while another name stays active
C17_Witness ==
    /\ pc = "sweep"
    /\ idx >= 2
    /\ event_list[idx].delta = -1
    /\ event_list[idx].name \notin DOMAIN current_users
    /\ current_users # EmptyDict
    /\ out_file.rows[idx].users # <<>>

\* lines 34-49 as a function of the rows of the file: the events appended, in order
RECURSIVE EventsOf(_, _)
EventsOf(rs, d) ==
    IF rs = <<>> THEN <<>>
    ELSE LET n == Len(rs)
             row_dict == rs[n]
             before == EventsOf(SubSeq(rs, 1, n - 1), d)
             user_name == LookupName(d, row_dict.user_id)
         IN IF SkipsRow(row_dict) THEN before
            ELSE before \o <<StartEvent(row_dict, user_name, n),
                             EndEvent(row_dict, user_name, n)>>

\* lines 57-78 as a function of the event list: the rows written by the first
\* k iterations and the position of the event that raised (0 when none did)
RECURSIVE SweepOf(_, _)
SweepOf(events, k) ==
    IF k = 0
    THEN [count |-> 0, users |-> EmptyDict, written |-> <<>>, raised_at |-> 0]
    ELSE LET before == SweepOf(events, k - 1)
             event == events[k]
             count == NextCount(before.count, event)
             res == SweepResult(before.users, event)
         IN IF before.raised_at # 0 THEN before
            ELSE IF res.raised THEN [before EXCEPT !.raised_at = k]
            ELSE [count |-> count,
                  users |-> res.users,
                  written |-> WriteRow(before.written,
                                       [datetime |-> event.timestamp,
                                        sessions |-> count,
                                        users |-> UserString(res.users)]),
                  raised_at |-> 0]

\* what a run on the event list leaves: the rows and where it aborted
Outcome(events) ==
    LET final == SweepOf(events, Len(events))
    IN [written |-> final.written, raised_at |-> final.raised_at]

\* the (timestamp, delta, name) tuples of an event list
Untagged(events) ==
    [i \in DOMAIN events |->
        <<events[i].timestamp, events[i].delta, events[i].name>>]

Permutations_of(n) ==
    {p \in [1..n -> 1..n] : \A i \in 1..n : \A j \in 1..n : p[i] = p[j] => i = j}

\* the permutations of the rows of a file, by its number of rows
RowPermutations == [n \in 0..MaxRows |-> Permutations_of(n)]

Permuted(rs, p) == [i \in DOMAIN rs |-> rs[p[i]]]

\* an order of the records, to single out one arrangement of each multiset
RowBefore(r1, r2) ==
    IF r1.start_timestamp # r2.start_timestamp
    THEN r1.start_timestamp < r2.start_timestamp
    ELSE IF r1.end_timestamp # r2.end_timestamp
    THEN r1.end_timestamp < r2.end_timestamp
    ELSE StrLess(r1.user_id, r2.user_id)

RowsAscending ==
    \A i \in DOMAIN rows : \A j \in DOMAIN rows :
        i < j => ~RowBefore(rows[j], rows[i])

\* C18: with the user directory fixed, every permutation of the session
\* records yields the same sorted EventStream and the same outcome of the run
\* (the same rows, or an abort at the same event position).  Every
\* permutation of a multiset of records is compared with the ascending
\* arrangement of that multiset, so any two of them agree; the stream and the
\* outcome so computed are those of the run.
C18_OrderIndependent ==
    /\ pc = "write_session_count_csv_file" =>
          /\ event_list = Sorted(EventsOf(rows, user_dict))
          /\ RowsAscending =>
                LET stream == Untagged(event_list)
                    outcome == Outcome(event_list)
                IN \A p \in RowPermutations[Len(rows)] :
                      LET events == Sorted(EventsOf(Permuted(rows, p), user_dict))
                      IN /\ Untagged(events) = stream
                         /\ Outcome(events) = outcome
    /\ (Swept /\ pc # "sweep") =>
          LET outcome == Outcome(event_list)
          IN /\ out_file.rows = outcome.written
             /\ fault = "KeyError" <=> outcome.raised_at # 0
             /\ fault = "KeyError" => outcome.raised_at = idx + 1

\* two different valid records with the same start, in ascending order, whose
\* events the sort puts in another order than that of the rows
C18_Witness ==
    /\ pc = "write_session_count_csv_file"
    /\ RowsAscending
    /\ Len(rows) = 2
    /\ Len(event_list) = 4
    /\ rows[1] # rows[2]
    /\ rows[1].start_timestamp = rows[2].start_timestamp
    /\ event_list[1].rec = 2
    /\ event_list[2].rec = 1

====
